---- MODULE Spec2Model ----
(***************************************************************************)
(* Model of the timesheet dashboard request handlers:                      *)
(*   CalendarView.get / get_context_data / post   (calendar_view.py)       *)
(*   TimesheetMixin helpers                       (timesheet_mixin.py)     *)
(*   ListboardView.post                           (listboard_view.py)      *)
(* The persisted state is the table of monthly entries and the table of    *)
(* daily entries.  Optional fields hold None ({}) or Some(v) ({v}); text   *)
(* is a sequence of one-character strings.                                 *)
(***************************************************************************)
EXTENDS Integers, Sequences, FiniteSets, TLC

\* ------------------------------------------------------------------ bounds
\* Days 1..NumEditDays of a month can be touched by one posted formset.
NumEditDays == 1

\* Requests that can be in progress at the same time.
NumWorkers == 3

\* Review requests that can be in progress at the same time.
NumReviewWorkers == 2

\* Days 1..NumSeedDays of a month can hold a row before ensure_daily_placeholders
\* is called on it.
NumSeedDays == 3

\* Calls of ensure_daily_placeholders one caller makes in a row.
MaxCalls == 2

\* Days 1..NumBatchDays of a month can have a row in a posted batch whose rows
\* are validated one by one.
NumBatchDays == 2
NumOvertimeDays == 3
NumSingleEntryDays == 7

\* ------------------------------------------------------- optional values
None == {}
Some(x) == {x}

\* ------------------------------------------------------ users, employees
\* django.contrib.auth users known to the deployment.
Users == {"owner", "sup", "sup2", "hr"}

User ==
  [owner |-> [email |-> "e1@bhp.org", groups |-> {},
              first_name |-> <<"O", "b">>, last_name |-> <<"W">>],
   sup   |-> [email |-> "s1@bhp.org", groups |-> {"Supervisor"},
              first_name |-> <<"S", "i">>, last_name |-> <<"A">>],
   sup2  |-> [email |-> "s2@bhp.org", groups |-> {"Supervisor"},
              first_name |-> <<"T", "o">>, last_name |-> <<>>],
   hr    |-> [email |-> "hr@bhp.org", groups |-> {"HR"},
              first_name |-> <<"H", "a">>, last_name |-> <<"R">>]]

\* bhp_personnel.employee rows: identifier, email, supervisor.email, job_title
\* (text, one character per element).
Employees ==
  {[identifier |-> "E1", email |-> "e1@bhp.org",
    supervisor_email |-> "s1@bhp.org", job_title |->
      <<"O", "f", "f", "i", "c", "e", "r">>],
   [identifier |-> "E2", email |-> "s1@bhp.org",
    supervisor_email |-> "hr@bhp.org", job_title |->
      <<"N", "i", "g", "h", "t", " ", "G", "u", "a", "r", "d">>],
   [identifier |-> "E3", email |-> "s2@bhp.org",
    supervisor_email |-> "hr@bhp.org", job_title |->
      <<"M", "a", "n", "a", "g", "e", "r">>],
   [identifier |-> "E4", email |-> "hr@bhp.org",
    supervisor_email |-> "s2@bhp.org", job_title |->
      <<"H", "R", " ", "O", "f", "f", "i", "c", "e", "r">>]}

\* employee_id values that appear in request URLs.
EmployeeIds == {"E1"}

\* Dates the clock (get_utcnow) can show; it stands still during a behaviour.
Clock == {<<2024, 2, 15>>, <<2024, 3, 15>>}

\* (year, month) pairs that appear in request URLs.
Months == {<<2024, 3>>}

Targets == {[employee_id |-> e, year |-> ym[1], month |-> ym[2]] :
              e \in EmployeeIds, ym \in Months}

Statuses == {"draft", "submitted", "rejected", "approved", "verified"}

\* ------------------------------------------------------------------ state
VARIABLES
  ALLOW_FUTURE_MONTHS,  \* settings.TIMESHEET_ALLOW_FUTURE_MONTHS, read at import
  today,                \* get_utcnow().date()
  monthly,              \* committed timesheet.monthlyentry rows
  daily,                \* committed timesheet.dailyentry rows
  inflight,             \* per worker: the request it is in the middle of
  response              \* what the last request handled was answered with

vars == <<ALLOW_FUTURE_MONTHS, today, monthly, daily, inflight, response>>
env == <<ALLOW_FUTURE_MONTHS, today>>
\* What a request handled from start to finish leaves alone.
rest == <<ALLOW_FUTURE_MONTHS, today, inflight>>
db == <<monthly, daily>>

\* ------------------------------------------------------- TimesheetMixin
\* TimesheetMixin.employee: Employee.objects.get(identifier=employee_id),
\* None on DoesNotExist.
employee(employee_id) ==
  {e \in Employees : e.identifier = employee_id}

\* TimesheetMixin.user_employee: Employee.objects.get(email=user.email).
user_employee(u) ==
  {e \in Employees : e.email = User[u].email}

\* self.employee.supervisor.email raises AttributeError when self.employee is None.
EmployeeSupervisorRaises(employee_id) == employee(employee_id) = None

\* Mutant: the e-mail of the recorded supervisor is not compared.
any_supervisor_email(u, employee_id) == TRUE

\* TimesheetMixin._is_employee_supervisor
_is_employee_supervisor(u, employee_id) ==
  \E e \in employee(employee_id) : User[u].email = e.supervisor_email

\* TimesheetMixin._is_supervisor
_is_supervisor(u, employee_id) ==
  "Supervisor" \in User[u].groups /\ _is_employee_supervisor(u, employee_id)

\* _is_supervisor raises iff the group test passes and the e-mail lookup raises.
IsSupervisorRaises(u, employee_id) ==
  "Supervisor" \in User[u].groups /\ EmployeeSupervisorRaises(employee_id)

\* Mutant: membership of any review group counts as HR.
hr_or_supervisor(u) == User[u].groups \cap {"Supervisor", "HR"} # {}

\* TimesheetMixin._is_hr
_is_hr(u) == "HR" \in User[u].groups

\* TimesheetMixin._reviewer
_reviewer(u) == User[u].groups \cap {"Supervisor", "HR"} # {}

\* TimesheetMixin.get_user_credentials
get_user_credentials(u) ==
  LET first_name == User[u].first_name
      last_name == User[u].last_name
  IN IF first_name # <<>> /\ last_name # <<>>
       THEN <<first_name[1], ".", " ">> \o last_name
       ELSE <<>>

\* TimesheetMixin.is_future_month
is_future_month(year, month) ==
  \/ year > today[1]
  \/ year = today[1] /\ month > today[2]

IsLeap(year) == (year % 4 = 0 /\ year % 100 # 0) \/ year % 400 = 0

\* calendar.monthrange(year, month)[1]
LastDay(year, month) ==
  IF month = 2 THEN (IF IsLeap(year) THEN 29 ELSE 28)
  ELSE IF month \in {4, 6, 9, 11} THEN 30 ELSE 31

\* Mutant: the range stops one day early.
days_before_last_day(year, month) ==
  [i \in 1..(LastDay(year, month) - 1) |-> <<year, month, i>>]

\* TimesheetMixin.month_day_list
month_day_list(year, month) ==
  [i \in 1..LastDay(year, month) |-> <<year, month, i>>]

\* TimesheetMixin.construct_month_dt
construct_month_dt(t) == <<t.year, t.month, 1>>

\* ----------------------------------------------------------- persistence
\* DailyEntry values a posted form row can carry.
Durations == {0, 10}
EntryTypes == {"RH"}

\* entry_type of a row created without one (the model field's default).
DefaultEntryType == "RH"

\* Rows of one monthly entry.
daily_entries(D, m) == {d \in D : d.monthly_entry = m.id}

\* MonthlyEntry.objects.filter(employee=self.employee, month=dt)
monthly_lookup(M, t) ==
  {m \in M : m.employee = employee(t.employee_id) /\ m.month = construct_month_dt(t)}

\* MonthlyEntry.is_final: the final state of the workflow ("already verified").
is_final(m) == m.status = "verified"

\* A fresh MonthlyEntry row: defaults={'status': 'draft'}, every review field and
\* the derived monthly_overtime empty.
\* The primary key is unique per row: a serial number and the creating worker.
NewMonthly(M, t, w) ==
  [id |-> <<Cardinality(M) + 1, w>>,
   employee |-> employee(t.employee_id),
   month |-> construct_month_dt(t),
   status |-> "draft",
   submitted_datetime |-> None,
   approved_by |-> None, approved_date |-> None,
   verified_by |-> None, verified_date |-> None,
   rejected_by |-> None, rejected_date |-> None,
   comment |-> <<>>,
   monthly_overtime |-> None]

\* DailyEntry.objects.create(monthly_entry=..., day=_day, duration=0)
NewDaily(D, m, day) ==
  [id |-> <<m.id, day, Cardinality({d \in D : d.monthly_entry = m.id /\ d.day = day})>>,
   monthly_entry |-> m.id,
   day |-> day,
   duration |-> 0,
   entry_type |-> DefaultEntryType]

\* Mutant: a row is created for every date of the month.
every_day_missing(dates, m) ==
  {month_day_list(m.month[1], m.month[2])[i] :
     i \in 1..LastDay(m.month[1], m.month[2])}

\* TimesheetMixin.ensure_daily_placeholders: the rows to add given the dates read.
MissingDays(dates, m) ==
  {month_day_list(m.month[1], m.month[2])[i] :
     i \in 1..LastDay(m.month[1], m.month[2])} \ dates

\* Mutant: the dates already stored are not looked up.
no_dates_read(D, m) == {}

\* ensure_daily_placeholders, line 239-240: the dates read from the table.
existing_dates(D, m) == {d.day : d \in daily_entries(D, m)}

\* ensure_daily_placeholders, line 243-249: create a row for every date of the
\* month that is not among the dates read.
create_missing(D, m, dates) ==
  D \cup {NewDaily(D, m, day) : day \in MissingDays(dates, m)}

\* TimesheetMixin.ensure_daily_placeholders, run without interruption.
ensure_daily_placeholders(D, m) == create_missing(D, m, existing_dates(D, m))

\* Model.save(update_fields=fields): write the listed fields of the in-memory
\* object m onto the stored row with the same id.
Save(M, m, fields) ==
  {IF x.id = m.id
     THEN [f \in DOMAIN x |-> IF f \in fields THEN m[f] ELSE x[f]]
     ELSE x : x \in M}

AllFields ==
  {"id", "employee", "month", "status", "submitted_datetime", "approved_by",
   "approved_date", "verified_by", "verified_date", "rejected_by",
   "rejected_date", "comment", "monthly_overtime"}

\* update_fields of the review branch (calendar_view.py 261-264).
ReviewFields ==
  {"status", "approved_by", "approved_date", "verified_by", "verified_date",
   "rejected_by", "rejected_date", "comment"}

\* update_fields of the submit branch (calendar_view.py 291-292).
SubmitFields == {"status", "submitted_datetime"}

\* ------------------------------------------------------------- responses
\* A response is the message attached to it (django.contrib.messages), or one
\* of the three message-less outcomes below.
NoResponse == "<none>"          \* nothing handled yet
Page == "<page>"                \* a rendered page
Redirect == "<redirect>"        \* a redirect without message
ServerError == "<exception>"    \* unhandled exception; the transaction is rolled back

MsgFutureStart == "Cannot create or submit timesheets for future months."
MsgCreated == "Timesheet created. You can now enter your days."
MsgNoEntry == "Something went wrong. Please contact your administrator"
MsgFinal == "This timesheet is already verified and cannot be modified further."
MsgRetractDenied == "You are not allowed to retract verification."
MsgRetractStatus == "You can only retract a verified timesheet"
MsgRetracted == "Timesheet Verification retracted. Status is now \"Approved\"."
MsgApproveDenied == "You are not allowed to approve."
MsgApproveStatus == "Only submitted timesheets can be approved."
MsgApproved == "Timesheet approved"
MsgVerifyDenied == "You are not allowed to verify."
MsgVerifyStatus == "Only approved timesheets can be approved."
MsgVerified == "Timesheet verified"
MsgRejectDenied == "You are not allowed to reject."
MsgRejectStatus == "Only submitted or approved timesheets can be rejected."
MsgRejected == "Timesheet rejected"
MsgUnknownAction == "Unknown review action"
MsgNoChanges == "No changes submitted. Timesheet is open for editing."
MsgSubmitted == "Timesheet submitted to Supervisor for review"
MsgSaved == "Timesheet saved as draft"
MsgErrors == "Please correct errors on highlighted dates and try again."
MsgFutureGet == "Future months are disabled. Showing current month instead."

\* ------------------------------------------------------------ text input
\* str.strip() on a sequence of characters.
RECURSIVE lstrip(_)
lstrip(s) == IF s # <<>> /\ Head(s) = " " THEN lstrip(Tail(s)) ELSE s

RECURSIVE rstrip(_)
rstrip(s) ==
  IF s # <<>> /\ s[Len(s)] = " " THEN rstrip(SubSeq(s, 1, Len(s) - 1)) ELSE s

strip(s) == rstrip(lstrip(s))

\* review_comment values a request can carry; NoComment is an absent key.
NoComment == None
Comments == {NoComment, Some(<<" ", "n", "o">>)}

\* request.POST.get('review_comment', '').strip()
review_comment(c) == IF c = NoComment THEN <<>> ELSE strip(CHOOSE x \in c : TRUE)

\* review_action values a request can carry.
ReviewActions == {"retract", "approve", "verify", "reject", "other"}

\* Posted formsets: rows for a subset of the days 1..NumEditDays, each with a
\* duration and an entry type.
EditValues == [duration : Durations, entry_type : EntryTypes]
Edits == UNION {[days -> EditValues] : days \in SUBSET (1..NumEditDays)}

\* What a posted form amounts to for post: whether the formset management
\* fields are present, whether form and formset validate (never without the
\* management fields), and the rows a valid formset carries.
Forms ==
  {[management |-> FALSE, valid |-> FALSE, edits |-> <<>>],
   [management |-> TRUE, valid |-> FALSE, edits |-> <<>>]}
    \cup {[management |-> TRUE, valid |-> TRUE, edits |-> e] : e \in Edits}

\* ------------------------------------------------------ CalendarView.post
\* Lines 152-153 run before every branch: _is_supervisor may raise.
PostRaises(u, t) == IsSupervisorRaises(u, t.employee_id)

\* get_monthly_obj: .get() raises MultipleObjectsReturned on two matching rows.
GetMonthlyRaises(M, t) == Cardinality(monthly_lookup(M, t)) > 1

\* TimesheetMixin.get_monthly_obj: None or Some(row).
get_monthly_obj(M, t) == monthly_lookup(M, t)

\* TimesheetMixin.get_or_create_monthly_obj, the get_or_create part:
\* the stored row when one matches, else a new draft row.
get_or_create(M, t, w) ==
  LET found == monthly_lookup(M, t)
  IN IF found # {} THEN CHOOSE x \in found : TRUE ELSE NewMonthly(M, t, w)

\* 'start' in request.POST (calendar_view.py 162-174)
PostStart(u, t) ==
  /\ UNCHANGED rest
  /\ IF PostRaises(u, t)
       THEN response' = ServerError /\ UNCHANGED db
     ELSE IF is_future_month(t.year, t.month) /\ ~ALLOW_FUTURE_MONTHS
       THEN response' = MsgFutureStart /\ UNCHANGED db
     ELSE IF GetMonthlyRaises(monthly, t)
       THEN response' = ServerError /\ UNCHANGED db
     ELSE LET m == get_or_create(monthly, t, 0)
          IN /\ monthly' = monthly \cup {m}
             /\ daily' = ensure_daily_placeholders(daily, m)
             /\ response' = MsgCreated

\* The assignments of the four review branches (calendar_view.py 210-212,
\* 226-228, 240-242, 254-256) on the in-memory object; who is the acting user.
\* Mutant: the verification date survives the retraction.
retract_keeps_date(m) ==
  [m EXCEPT !.status = "approved", !.verified_by = None]

retract(m) ==
  [m EXCEPT !.status = "approved", !.verified_by = None, !.verified_date = None]

approve(m, who) ==
  [m EXCEPT !.status = "approved",
            !.approved_by = Some(get_user_credentials(who)),
            !.approved_date = Some(today)]

verify(m, who) ==
  [m EXCEPT !.status = "verified",
            !.verified_by = Some(get_user_credentials(who)),
            !.verified_date = Some(today)]

reject(m, who) ==
  [m EXCEPT !.status = "rejected",
            !.rejected_by = Some(get_user_credentials(who)),
            !.rejected_date = Some(today)]

\* Outcomes of the review branch: refused with an error message, or the
\* in-memory object to save and the success message.
Refused(message) == [obj |-> None, message |-> message]
Applied(m, message) == [obj |-> Some(m), message |-> message]

\* Mutant: the branch of an unknown action does not return and falls through
\* to the assignment of the comment and the save.
unknown_action_falls_through(u, t, m, action, c) ==
  LET is_hr == _is_hr(u)
      is_supervisor == _is_supervisor(u, t.employee_id)
      prev_status == m.status
      commented(x) == [x EXCEPT !.comment = review_comment(c)]
  IN IF is_final(m) /\ ~is_hr THEN Refused(MsgFinal)
     ELSE IF action = "retract" THEN
       IF ~is_hr THEN Refused(MsgRetractDenied)
       ELSE IF prev_status # "verified" THEN Refused(MsgRetractStatus)
       ELSE Applied(commented(retract(m)), MsgRetracted)
     ELSE IF action = "approve" THEN
       IF ~is_supervisor THEN Refused(MsgApproveDenied)
       ELSE IF prev_status \notin {"submitted"} THEN Refused(MsgApproveStatus)
       ELSE Applied(commented(approve(m, u)), MsgApproved)
     ELSE IF action = "verify" THEN
       IF ~is_hr THEN Refused(MsgVerifyDenied)
       ELSE IF prev_status \notin {"approved"} THEN Refused(MsgVerifyStatus)
       ELSE Applied(commented(verify(m, u)), MsgVerified)
     ELSE IF action = "reject" THEN
       IF ~_reviewer(u) THEN Refused(MsgRejectDenied)
       ELSE IF prev_status \notin {"submitted", "approved"} THEN Refused(MsgRejectStatus)
       ELSE Applied(commented(reject(m, u)), MsgRejected)
     ELSE Applied(commented(m), MsgUnknownAction)

\* The review branch of post (calendar_view.py 187-268) up to the save.
Review(u, t, m, action, c) ==
  LET is_hr == _is_hr(u)
      is_supervisor == _is_supervisor(u, t.employee_id)
      prev_status == m.status
      commented(x) == [x EXCEPT !.comment = review_comment(c)]
  IN IF is_final(m) /\ ~is_hr THEN Refused(MsgFinal)
     ELSE IF action = "retract" THEN
       IF ~is_hr THEN Refused(MsgRetractDenied)
       ELSE IF prev_status # "verified" THEN Refused(MsgRetractStatus)
       ELSE Applied(commented(retract(m)), MsgRetracted)
     ELSE IF action = "approve" THEN
       IF ~is_supervisor THEN Refused(MsgApproveDenied)
       ELSE IF prev_status \notin {"submitted"} THEN Refused(MsgApproveStatus)
       ELSE Applied(commented(approve(m, u)), MsgApproved)
     ELSE IF action = "verify" THEN
       IF ~is_hr THEN Refused(MsgVerifyDenied)
       ELSE IF prev_status \notin {"approved"} THEN Refused(MsgVerifyStatus)
       ELSE Applied(commented(verify(m, u)), MsgVerified)
     ELSE IF action = "reject" THEN
       IF ~_reviewer(u) THEN Refused(MsgRejectDenied)
       ELSE IF prev_status \notin {"submitted", "approved"} THEN Refused(MsgRejectStatus)
       ELSE Applied(commented(reject(m, u)), MsgRejected)
     ELSE Refused(MsgUnknownAction)

\* POST with review_action set (calendar_view.py 176-268)
PostReview(u, t, action, c) ==
  /\ UNCHANGED <<rest, daily>>
  /\ IF PostRaises(u, t) \/ GetMonthlyRaises(monthly, t)
       THEN response' = ServerError /\ UNCHANGED monthly
     ELSE IF get_monthly_obj(monthly, t) = None
       THEN response' = MsgNoEntry /\ UNCHANGED monthly
     ELSE LET monthly_entry == CHOOSE m \in get_monthly_obj(monthly, t) : TRUE
              result == Review(u, t, monthly_entry, action, c)
          IN /\ response' = result.message
             /\ IF result.obj = None
                  THEN UNCHANGED monthly
                  ELSE monthly' = Save(monthly, CHOOSE x \in result.obj : TRUE,
                                       ReviewFields)

\* _build_extra_context raises: get_monthly_obj on two rows, _is_supervisor on a
\* missing employee, user_employee.id on a user without an employee record.
ContextRaises(M, u, t) ==
  \/ GetMonthlyRaises(M, t)
  \/ IsSupervisorRaises(u, t.employee_id)
  \/ user_employee(u) = None

\* formset.save(): every posted row is written onto the stored row of its day.
formset_save(D, m, edits) ==
  {IF d.monthly_entry = m.id /\ d.day[3] \in DOMAIN edits
     THEN [d EXCEPT !.duration = edits[d.day[3]].duration,
                    !.entry_type = edits[d.day[3]].entry_type]
     ELSE d : d \in D}

\* POST without review_action: save or submit (calendar_view.py 270-312).
\* management: the formset management fields are present in the POST.
\* valid: form.is_valid() and formset.is_valid(), decided by the posted data.
\* An invalid form is answered by re-rendering the page (lines 306-312).
\* form.save() (line 286) writes the form's own fields of the monthly row; the
\* workflow fields kept here (status, review fields, comment) are written only
\* by the assignments of post.
PostSave(u, t, strict, management, valid, edits) ==
  /\ UNCHANGED rest
  /\ IF PostRaises(u, t) \/ GetMonthlyRaises(monthly, t)
       THEN response' = ServerError /\ UNCHANGED db
     ELSE IF get_monthly_obj(monthly, t) = None
       THEN response' = MsgNoEntry /\ UNCHANGED db
     ELSE IF ~management
       THEN response' = MsgNoChanges /\ UNCHANGED db
     ELSE IF ~valid
       THEN /\ response' = IF ContextRaises(monthly, u, t) THEN ServerError
                            ELSE MsgErrors
            /\ UNCHANGED db
     ELSE LET monthly_entry == CHOOSE m \in get_monthly_obj(monthly, t) : TRUE
              submitted == [monthly_entry EXCEPT
                              !.status = "submitted",
                              !.submitted_datetime = Some(today)]
          IN /\ daily' = formset_save(daily, monthly_entry, edits)
             /\ monthly' = IF strict
                             THEN Save(monthly, submitted, SubmitFields)
                             ELSE monthly
             /\ response' = IF strict THEN MsgSubmitted ELSE MsgSaved

\* ----------------------------------------------------- ListboardView.post
\* month values of the query string; NoMonth is an absent key.
NoMonth == "<absent>"
MonthStrings == {NoMonth, "Mar. 01, 2024", "Mar. 15, 2024", "2024-03"}

\* datetime.strptime(month_string, '%b. %d, %Y').date(): None when it raises
\* (TypeError on an absent key, ValueError on another format).
strptime(month_string) ==
  CASE month_string = "Mar. 01, 2024" -> Some(<<2024, 3, 1>>)
    [] month_string = "Mar. 15, 2024" -> Some(<<2024, 3, 15>>)
    [] OTHER -> None

\* model_cls.objects.get(employee__identifier=..., month=...)
listboard_lookup(M, employee_id, dt) ==
  {m \in M : (\E e \in m.employee : e.identifier = employee_id) /\ Some(m.month) = dt}

\* ListboardView.post (listboard_view.py 49-62)
ListboardPost(u, employee_id, month_string) ==
  /\ UNCHANGED <<rest, daily>>
  /\ LET dt == strptime(month_string)
         found == listboard_lookup(monthly, employee_id, dt)
     IN IF dt = None \/ Cardinality(found) > 1
          THEN response' = ServerError /\ UNCHANGED monthly
        ELSE IF found = {}
          THEN response' = Redirect /\ UNCHANGED monthly
        ELSE LET monthly_entry_obj == CHOOSE m \in found : TRUE
             IN /\ monthly' = Save(monthly,
                                   [monthly_entry_obj EXCEPT !.status = "submitted"],
                                   AllFields)
                /\ response' = Redirect

\* ------------------------------------------------------- CalendarView.get
\* ?ym=YYYY-MM of the month picker, already parsed; NoYm is an absent key.
NoYm == None
Yms == {NoYm, Some(<<2024, 2>>), Some(<<2024, 3>>)}

\* QuerySet.first(): one row of a non-empty result, the same one every time.
first(rows) == CHOOSE m \in rows : TRUE

\* Mutant: the page read creates the monthly entry it does not find.
rows_created_on_read(M, t) == M \cup {get_or_create(M, t, 0)}

\* get_context_data, lines 71-75: the monthly table after the lookup, which is
\* filter(...).first() ("no creation on GET").
rows_after_read(M, t) == M

\* CalendarView.get and get_context_data (calendar_view.py 41-143)
Get(u, t, ym) ==
  /\ UNCHANGED rest
  /\ IF ym # NoYm /\ ym # Some(<<t.year, t.month>>)
       THEN response' = Redirect /\ UNCHANGED db
     ELSE IF is_future_month(t.year, t.month) /\ ~ALLOW_FUTURE_MONTHS
       THEN response' = MsgFutureGet /\ UNCHANGED db
     ELSE LET found == monthly_lookup(monthly, t)
          IN /\ monthly' = rows_after_read(monthly, t)
             /\ daily' = IF found = {} THEN daily
                         ELSE ensure_daily_placeholders(daily, first(found))
             /\ response' = IF ContextRaises(monthly, u, t) THEN ServerError ELSE Page

\* ------------------------------------------------------------ behaviours
Workers == 1..NumWorkers
ReviewWorkers == 1..NumReviewWorkers
Idle == [op |-> "idle"]

\* TIMESHEET_ALLOW_FUTURE_MONTHS is unset (False) or set; it is read only for a
\* month after the current one, so it is varied on the date before the target
\* month.
Init ==
  /\ today \in Clock
  /\ ALLOW_FUTURE_MONTHS \in (IF today = <<2024, 2, 15>> THEN BOOLEAN ELSE {FALSE})
  /\ monthly = {}
  /\ daily = {}
  /\ inflight = [w \in Workers |-> Idle]
  /\ response = NoResponse

\* One request at a time, each handled from start to finish.
Next ==
  \/ \E u \in Users, t \in Targets : PostStart(u, t)
  \/ \E u \in Users, t \in Targets, action \in ReviewActions, c \in Comments :
       PostReview(u, t, action, c)
  \/ \E u \in Users, t \in Targets, strict \in BOOLEAN, f \in Forms :
       PostSave(u, t, strict, f.management, f.valid, f.edits)
  \/ \E u \in Users, employee_id \in EmployeeIds, month_string \in MonthStrings :
       ListboardPost(u, employee_id, month_string)
  \/ \E u \in Users, t \in Targets, ym \in Yms : Get(u, t, ym)

Spec == Init /\ [][Next]_vars

\* ------------------------------------------------- concurrent requests
\* Every POST runs in one transaction (@transaction.atomic, line 145) at the
\* READ COMMITTED level: it reads committed rows, and its own writes become
\* visible to others when it returns.  No row is locked when it is read
\* (get_monthly_obj is a plain .get(), no select_for_update).

\* Mutant: the store has no key on (employee, month).
insert_never_waits(I, w, t) == FALSE

\* The store is keyed by (employee, month): an INSERT of a key waits while
\* another transaction holds an uncommitted INSERT of the same key.
insert_waits(I, w, t) ==
  \E v \in Workers \ {w} :
    /\ I[v].op = "start" /\ I[v].pc # "get_or_create"
    /\ I[v].created /\ I[v].t = t

\* post, lines 148-167, for a start request: the request is taken up.
StartAccept(w, u, t) ==
  /\ inflight[w] = Idle
  /\ UNCHANGED <<env, db>>
  /\ IF PostRaises(u, t)
       THEN response' = ServerError /\ UNCHANGED inflight
     ELSE IF is_future_month(t.year, t.month) /\ ~ALLOW_FUTURE_MONTHS
       THEN response' = MsgFutureStart /\ UNCHANGED inflight
     ELSE /\ UNCHANGED response
          /\ inflight' = [inflight EXCEPT ![w] =
               [op |-> "start", pc |-> "get_or_create", t |-> t]]

\* get_or_create_monthly_obj, lines 215-219.  A waiting INSERT ends with an
\* IntegrityError once the other transaction has committed, and get_or_create
\* then returns the committed row.
StartGetOrCreate(w) ==
  /\ inflight[w].op = "start" /\ inflight[w].pc = "get_or_create"
  /\ UNCHANGED <<env, db>>
  /\ IF GetMonthlyRaises(monthly, inflight[w].t)
       THEN response' = ServerError /\ inflight' = [inflight EXCEPT ![w] = Idle]
       ELSE LET t == inflight[w].t
                row == get_or_create(monthly, t, w)
            IN /\ row \notin monthly => ~insert_waits(inflight, w, t)
               /\ UNCHANGED response
               /\ inflight' = [inflight EXCEPT ![w] =
                    [op |-> "start", pc |-> "ensure", t |-> t, obj |-> row,
                     created |-> row \notin monthly]]

\* ensure_daily_placeholders, lines 239-240 (called at line 221).
StartReadDates(w) ==
  /\ inflight[w].op = "start" /\ inflight[w].pc = "ensure"
  /\ UNCHANGED <<env, db, response>>
  /\ inflight' = [inflight EXCEPT ![w] =
       [op |-> "start", pc |-> "create", t |-> inflight[w].t,
        obj |-> inflight[w].obj, created |-> inflight[w].created,
        dates |-> existing_dates(daily, inflight[w].obj)]]

\* ensure_daily_placeholders, lines 241-249, then the return of post: commit.
StartCommit(w) ==
  /\ inflight[w].op = "start" /\ inflight[w].pc = "create"
  /\ UNCHANGED env
  /\ monthly' = monthly \cup {inflight[w].obj}
  /\ daily' = create_missing(daily, inflight[w].obj, inflight[w].dates)
  /\ inflight' = [inflight EXCEPT ![w] = Idle]
  /\ response' = MsgCreated

\* post, lines 148-259, for a review request: load the row, validate the
\* action against the status read, assign the new values in memory.
ReviewLoad(w, u, t, action, c) ==
  /\ inflight[w] = Idle
  /\ UNCHANGED <<env, db>>
  /\ IF PostRaises(u, t) \/ GetMonthlyRaises(monthly, t)
       THEN response' = ServerError /\ UNCHANGED inflight
     ELSE IF get_monthly_obj(monthly, t) = None
       THEN response' = MsgNoEntry /\ UNCHANGED inflight
     ELSE LET monthly_entry == CHOOSE m \in get_monthly_obj(monthly, t) : TRUE
              result == Review(u, t, monthly_entry, action, c)
          IN IF result.obj = None
               THEN response' = result.message /\ UNCHANGED inflight
               ELSE /\ UNCHANGED response
                    /\ inflight' = [inflight EXCEPT ![w] =
                         [op |-> "review", action |-> action, read |-> monthly_entry,
                          obj |-> CHOOSE x \in result.obj : TRUE,
                          message |-> result.message]]

\* post, lines 260-268: save(update_fields=...) and commit.
ReviewCommit(w) ==
  /\ inflight[w].op = "review"
  /\ UNCHANGED <<env, daily>>
  /\ monthly' = Save(monthly, inflight[w].obj, ReviewFields)
  /\ response' = inflight[w].message
  /\ inflight' = [inflight EXCEPT ![w] = Idle]

\* CalendarView.get and get_context_data, lines 41-78, and the first statement
\* of ensure_daily_placeholders (lines 239-240).  A GET runs outside any
\* transaction: every statement reads what is committed at that moment.
GetReadDates(w, u, t, ym) ==
  /\ inflight[w] = Idle
  /\ UNCHANGED <<env, db>>
  /\ IF ym # NoYm /\ ym # Some(<<t.year, t.month>>)
       THEN response' = Redirect /\ UNCHANGED inflight
     ELSE IF is_future_month(t.year, t.month) /\ ~ALLOW_FUTURE_MONTHS
       THEN response' = MsgFutureGet /\ UNCHANGED inflight
     ELSE LET found == monthly_lookup(monthly, t)
          IN IF found = {}
               THEN /\ response' = IF ContextRaises(monthly, u, t)
                                     THEN ServerError ELSE Page
                    /\ UNCHANGED inflight
               ELSE /\ UNCHANGED response
                    /\ inflight' = [inflight EXCEPT ![w] =
                         [op |-> "get", pc |-> "create", u |-> u, t |-> t,
                          obj |-> first(found),
                          dates |-> existing_dates(daily, first(found))]]

\* ensure_daily_placeholders, lines 241-249, then the rest of get_context_data.
GetCreate(w) ==
  /\ inflight[w].op = "get"
  /\ UNCHANGED <<env, monthly>>
  /\ daily' = create_missing(daily, inflight[w].obj, inflight[w].dates)
  /\ response' = IF ContextRaises(monthly, inflight[w].u, inflight[w].t)
                   THEN ServerError ELSE Page
  /\ inflight' = [inflight EXCEPT ![w] = Idle]

\* Concurrent start requests.
NextStart ==
  \/ \E w \in Workers, u \in Users, t \in Targets : StartAccept(w, u, t)
  \/ \E w \in Workers : StartGetOrCreate(w)
  \/ \E w \in Workers : StartReadDates(w)
  \/ \E w \in Workers : StartCommit(w)

SpecStart == Init /\ [][NextStart]_vars

\* Concurrent start requests and page reads.
NextPlaceholders ==
  \/ \E w \in Workers, u \in Users, t \in Targets : StartAccept(w, u, t)
  \/ \E w \in Workers : StartGetOrCreate(w)
  \/ \E w \in Workers : StartReadDates(w)
  \/ \E w \in Workers : StartCommit(w)
  \/ \E w \in Workers, u \in Users, t \in Targets, ym \in Yms :
       GetReadDates(w, u, t, ym)
  \/ \E w \in Workers : GetCreate(w)

SpecPlaceholders == Init /\ [][NextPlaceholders]_vars

\* entry_type values the overtime filters tell apart (timesheet_mixin.py 146,
\* 160, 163): regular hours, weekend, holiday.
StoredEntryTypes == {"RH", "WE", "H"}

\* Daily rows a monthly entry m can hold before a call: on each of the days
\* 1..NumSeedDays no row, or one row with a duration and an entry type.
SeedRows(m) ==
  {[id |-> <<m.id, <<m.month[1], m.month[2], day>>, 0>>,
    monthly_entry |-> m.id,
    day |-> <<m.month[1], m.month[2], day>>,
    duration |-> duration,
    entry_type |-> entry_type] :
     day \in 1..NumSeedDays, duration \in Durations, entry_type \in StoredEntryTypes}

SeedSets(m) ==
  {D \in SUBSET SeedRows(m) : \A d1 \in D, d2 \in D : d1.day = d2.day => d1 = d2}

\* One call of ensure_daily_placeholders(monthly_entry), run without
\* interruption; the caller keeps the number of rows each of its calls created.
EnsureCall(w) ==
  \E m \in monthly :
    /\ inflight[w].op \in {"idle", "ensured"}
    /\ inflight[w].op = "ensured" => Len(inflight[w].created) < MaxCalls
    /\ daily' = ensure_daily_placeholders(daily, m)
    /\ inflight' = [inflight EXCEPT ![w] =
         [op |-> "ensured",
          created |-> (IF inflight[w].op = "ensured" THEN inflight[w].created
                       ELSE <<>>)
                        \o <<Cardinality(daily') - Cardinality(daily)>>]]
    /\ UNCHANGED <<env, monthly, response>>

\* A monthly entry with any set of rows on its first days, and one caller of
\* ensure_daily_placeholders, calling again and again.
InitEnsure ==
  /\ today \in Clock
  /\ ALLOW_FUTURE_MONTHS = FALSE
  /\ \E t \in Targets :
       /\ monthly = {NewMonthly({}, t, 0)}
       /\ daily \in SeedSets(NewMonthly({}, t, 0))
  /\ inflight = [w \in Workers |-> Idle]
  /\ response = NoResponse

NextEnsure == EnsureCall(1)

SpecEnsure == InitEnsure /\ [][NextEnsure]_vars

\* The application is restarted with another value of
\* settings.TIMESHEET_ALLOW_FUTURE_MONTHS (read once, when the class is loaded);
\* the stored rows stay.
Reconfigure ==
  /\ ALLOW_FUTURE_MONTHS' \in BOOLEAN \ {ALLOW_FUTURE_MONTHS}
  /\ UNCHANGED <<today, db, inflight, response>>

\* Requests handled one at a time, and restarts with another setting.
NextFlag ==
  \/ Next
  \/ Reconfigure

SpecFlag == Init /\ [][NextFlag]_vars

\* The users whose review requests overlap: the owner, the supervisor of
\* record and HR.
Reviewers == {"owner", "sup", "hr"}

\* Posted formsets with the outcome of each row's validation: rows for a
\* subset of the days 1..NumBatchDays, each with hours entered and valid or not.
BatchRows == [duration : Durations \ {0}, entry_type : EntryTypes, valid : BOOLEAN]
Batches == UNION {[days -> BatchRows] : days \in SUBSET (1..NumBatchDays)}

\* Mutant: one valid row is enough.
some_row_valid(batch) == \E day \in DOMAIN batch : batch[day].valid

\* formset.is_valid() (calendar_view.py 285): every row of the formset is valid.
formset_is_valid(batch) == \A day \in DOMAIN batch : batch[day].valid

\* POST without review_action that carries the management fields and a batch
\* of rows; form_valid is MonthlyEntryForm.is_valid().
PostBatch(u, t, strict, form_valid, batch) ==
  PostSave(u, t, strict, TRUE, form_valid /\ formset_is_valid(batch), batch)

\* A timesheet is started, saved and submitted batch by batch, and reviewed;
\* requests are handled one at a time.
NextBatch ==
  \/ \E t \in Targets : PostStart("owner", t)
  \/ \E t \in Targets, strict \in BOOLEAN, form_valid \in BOOLEAN,
        batch \in Batches :
       PostBatch("owner", t, strict, form_valid, batch)
  \/ \E u \in Reviewers, t \in Targets, action \in ReviewActions :
       PostReview(u, t, action, NoComment)

SpecBatch == Init /\ [][NextBatch]_vars

\* A timesheet is started and submitted (an unchanged, valid formset) by
\* requests handled one at a time; review requests overlap.
NextReview ==
  \/ \E t \in Targets : PostStart("owner", t)
  \/ \E t \in Targets : PostSave("owner", t, TRUE, TRUE, TRUE, <<>>)
  \/ \E w \in ReviewWorkers, u \in Reviewers, t \in Targets, action \in ReviewActions :
       ReviewLoad(w, u, t, action, NoComment)
  \/ \E w \in ReviewWorkers : ReviewCommit(w)

SpecReview == Init /\ [][NextReview]_vars

TypeOK ==
  /\ ALLOW_FUTURE_MONTHS \in BOOLEAN
  /\ today \in Clock
  /\ \A m \in monthly : m.status \in Statuses
  /\ \A w \in Workers : inflight[w].op \in {"idle", "start", "review", "get", "ensured", "page",
                                   "overtime", "days"}

\* ------------------------------------------------- roles and page flags
\* TimesheetMixin._target_employee: the employee of the URL for a member of a
\* review group when that employee exists, else the user's own employee.
_target_employee(u, employee_id) ==
  IF _reviewer(u) /\ employee(employee_id) # None
    THEN employee(employee_id)
    ELSE user_employee(u)

\* target_employee.id / self.user_employee.id raise AttributeError on None.
ChangeCalendarModeRaises(u, employee_id) ==
  _target_employee(u, employee_id) = None \/ user_employee(u) = None

\* TimesheetMixin._change_calendar_mode: (is_owner, is_reviewer).
_change_calendar_mode(u, employee_id) ==
  LET is_owner == _target_employee(u, employee_id) = user_employee(u)
  IN [is_owner |-> is_owner,
      is_reviewer |-> (~is_owner) /\ _reviewer(u)]

\* getattr(monthly_obj, 'status', None): no status when there is no row.
entry_status(obj) == {m.status : m \in obj}

readonly_status == {"approved", "verified"}

\* CalendarView._build_extra_context, lines 321-347: the flags of the page.
_build_extra_context(M, u, t) ==
  LET mode == _change_calendar_mode(u, t.employee_id)
      is_owner == mode.is_owner
      is_hr == _is_hr(u)
      is_supervisor == _is_supervisor(u, t.employee_id)
      status == entry_status(get_monthly_obj(M, t))
  IN [is_owner |-> is_owner,
      is_reviewer |-> mode.is_reviewer,
      readonly |-> mode.is_reviewer
                     \/ (is_owner /\ status \cap readonly_status # {}),
      allow_edit |-> is_owner /\ status \cap readonly_status = {},
      allow_hr_review |-> (~is_owner) /\ is_hr /\ status \cap {"approved"} # {},
      allow_sv_review |-> (~is_owner) /\ is_supervisor
                            /\ status \cap {"submitted"} # {},
      allow_reject |-> (~is_owner) /\ (is_supervisor \/ is_hr)
                         /\ status \cap {"submitted", "approved"} # {},
      allow_retract |-> (~is_owner) /\ is_hr /\ status = {"verified"}]

\* Pages requested: the timesheet of E1 and that of E2, the supervisor's own.
PageEmployeeIds == {"E1", "E2"}
PageTargets == {[employee_id |-> e, year |-> ym[1], month |-> ym[2]] :
                  e \in PageEmployeeIds, ym \in Months}

\* CalendarView.get answered with the page (calendar_view.py 41-62, 64-143):
\* the placeholders are ensured and worker w's client holds the page context.
GetPage(w, u, t) ==
  /\ inflight[w].op \in {"idle", "page"}
  /\ ~(is_future_month(t.year, t.month) /\ ~ALLOW_FUTURE_MONTHS)
  /\ ~ContextRaises(monthly, u, t)
  /\ ~ChangeCalendarModeRaises(u, t.employee_id)
  /\ LET found == monthly_lookup(monthly, t)
     IN /\ monthly' = rows_after_read(monthly, t)
        /\ daily' = IF found = {} THEN daily
                    ELSE ensure_daily_placeholders(daily, first(found))
  /\ response' = Page
  /\ inflight' = [inflight EXCEPT ![w] =
       [op |-> "page", u |-> u, t |-> t,
        entry_status |-> entry_status(get_monthly_obj(monthly, t)),
        context |-> _build_extra_context(monthly, u, t)]]
  /\ UNCHANGED env

\* The timesheet of E1 goes through its workflow while every user opens pages.
NextPage ==
  \/ \E t \in Targets : PostStart("owner", t)
  \/ \E t \in Targets, strict \in BOOLEAN :
       PostSave("owner", t, strict, TRUE, TRUE, <<>>)
  \/ \E u \in Reviewers, t \in Targets, action \in ReviewActions :
       PostReview(u, t, action, NoComment)
  \/ \E u \in Users, t \in PageTargets : GetPage(1, u, t)

SpecPage == Init /\ [][NextPage]_vars

\* ------------------------------------------------------------- overtime
UpperCase == <<"A", "B", "C", "D", "E", "F", "G", "H", "I", "J", "K", "L", "M",
               "N", "O", "P", "Q", "R", "S", "T", "U", "V", "W", "X", "Y", "Z">>
LowerCase == <<"a", "b", "c", "d", "e", "f", "g", "h", "i", "j", "k", "l", "m",
               "n", "o", "p", "q", "r", "s", "t", "u", "v", "w", "x", "y", "z">>

\* str.lower()
lower(s) ==
  [i \in 1..Len(s) |->
     IF \E k \in 1..Len(UpperCase) : UpperCase[k] = s[i]
       THEN LowerCase[CHOOSE k \in 1..Len(UpperCase) : UpperCase[k] = s[i]]
       ELSE s[i]]

\* sub in s
contains(s, sub) ==
  \E i \in 0..(Len(s) - Len(sub)) : SubSeq(s, i + 1, i + Len(sub)) = sub

\* TimesheetMixin.is_nightwatch: the job title of the acting user's employee.
is_nightwatch(u) ==
  \E e \in user_employee(u) : contains(lower(e.job_title), <<"n", "i", "g", "h", "t">>)

\* date.weekday as the week_day lookup counts it: 1 = Sunday .. 7 = Saturday.
MonthOffset == <<0, 3, 2, 5, 0, 3, 5, 1, 4, 6, 2, 4>>

week_day(day) ==
  LET y == IF day[2] < 3 THEN day[1] - 1 ELSE day[1]
  IN ((y + (y \div 4) - (y \div 100) + (y \div 400) + MonthOffset[day[2]] + day[3]) % 7) + 1

\* calculate_monthly_overtime, lines 141-143 and 149.
base_time_obj == 8
holiday_entry_duration == 8
base_time_obj_nightwatch == 12

\* Mutant: an unset weekend baseline counts as zero hours.
weekend_baseline_zero == Some(0)

weekend_entry_duration == None

\* Mutant: the difference is added whatever its sign.
difference_always(duration, baseline) == duration - baseline

\* Lines 154-156, 172-174, 176-178, 181-183: the hours one entry adds.
difference_if_positive(duration, baseline) ==
  IF duration > baseline THEN duration - baseline ELSE 0

\* Q(day__week_day__lt=7) & Q(day__week_day__gt=1) & Q(entry_type='RH')
weekday_entries(dailyentries) ==
  {e \in dailyentries :
     week_day(e.day) < 7 /\ week_day(e.day) > 1 /\ e.entry_type = "RH"}

\* Mutant: a night watch's weekend queryset leaves the holiday entries to the
\* holiday loop.
weekend_entries_without_holidays(dailyentries, nightwatch) ==
  IF nightwatch
    THEN {e \in dailyentries :
            week_day(e.day) >= 6 /\ week_day(e.day) <= 7 /\ e.entry_type # "H"}
    ELSE {e \in dailyentries :
            week_day(e.day) >= 6 /\ week_day(e.day) <= 7 /\ e.entry_type = "WE"}

\* Lines 158-168: the weekend queryset, replaced for a night watch.
weekend_entries(dailyentries, nightwatch) ==
  IF nightwatch
    THEN {e \in dailyentries :
            (week_day(e.day) >= 6 /\ week_day(e.day) <= 7) \/ e.entry_type = "H"}
    ELSE {e \in dailyentries :
            week_day(e.day) >= 6 /\ week_day(e.day) <= 7 /\ e.entry_type = "WE"}

\* Q(entry_type='H')
holiday_entries(dailyentries) == {e \in dailyentries : e.entry_type = "H"}

\* A for loop adding the hours of every entry of a queryset to extra_hours.
RECURSIVE add_entries(_, _)
add_entries(entries, baseline) ==
  IF entries = {} THEN 0
  ELSE LET e == CHOOSE x \in entries : TRUE
       IN difference_if_positive(e.duration, baseline)
            + add_entries(entries \ {e}, baseline)

\* weekend_entry.duration - weekend_entry_duration raises TypeError on None:
\* the first weekend entry of a user who is no night watch ends the call.
OvertimeRaises(dailyentries, nightwatch) ==
  /\ ~nightwatch
  /\ weekend_entries(dailyentries, nightwatch) # {}
  /\ weekend_entry_duration = None

\* extra_hours at line 185: the three loops, one after the other.
extra_hours(dailyentries, nightwatch) ==
  LET base == IF nightwatch THEN base_time_obj_nightwatch ELSE base_time_obj
      weekend_base ==
        IF nightwatch THEN Some(base) ELSE weekend_entry_duration
  IN add_entries(weekday_entries(dailyentries), base)
     + (IF weekend_base = None THEN 0
        ELSE add_entries(weekend_entries(dailyentries, nightwatch),
                         CHOOSE b \in weekend_base : TRUE))
     + add_entries(holiday_entries(dailyentries), holiday_entry_duration)

DigitChars == <<"0", "1", "2", "3", "4", "5", "6", "7", "8", "9">>

RECURSIVE digits(_)
digits(n) ==
  IF n < 10 THEN <<DigitChars[n + 1]>>
  ELSE digits(n \div 10) \o <<DigitChars[(n % 10) + 1]>>

\* str(extra_hours)
str(n) == IF n < 0 THEN <<"-">> \o digits(0 - n) ELSE digits(n)

\* TimesheetMixin.calculate_monthly_overtime: whether the call raised, and the
\* monthly_overtime of the monthly_entry it was given (unset, or the text set
\* at line 185).
calculate_monthly_overtime(dailyentries, nightwatch) ==
  IF OvertimeRaises(dailyentries, nightwatch)
    THEN [raised |-> TRUE, monthly_overtime |-> None]
    ELSE [raised |-> FALSE,
          monthly_overtime |-> Some(str(extra_hours(dailyentries, nightwatch)))]

\* Stored rows the overtime is computed from: any entry type and a duration
\* below, between and above the two baselines on the first days of the month
\* (2024-03-01 is a Friday).
OvertimeDurations == {6, 10, 14}

OvertimeValues == [duration : OvertimeDurations, entry_type : StoredEntryTypes]

OvertimeRow(m, day, v) ==
  [id |-> <<m.id, <<m.month[1], m.month[2], day>>, 0>>,
   monthly_entry |-> m.id,
   day |-> <<m.month[1], m.month[2], day>>,
   duration |-> v.duration,
   entry_type |-> v.entry_type]

\* Every choice of no row or one row for each of the days.
OvertimeSets(m) ==
  {UNION {{OvertimeRow(m, day, v) : v \in f[day]} : day \in 1..NumOvertimeDays} :
     f \in [1..NumOvertimeDays -> {None} \cup {Some(v) : v \in OvertimeValues}]}

\* One call of calculate_monthly_overtime by a view serving user u, on the
\* daily entries of a monthly entry; the caller keeps what the call left.
CalculateOvertime(w, u) ==
  \E m \in monthly :
    /\ inflight[w].op = "idle"
    /\ inflight' = [inflight EXCEPT ![w] =
         [op |-> "overtime", u |-> u,
          dailyentries |-> daily_entries(daily, m),
          result |-> calculate_monthly_overtime(daily_entries(daily, m),
                                                is_nightwatch(u))]]
    /\ UNCHANGED <<env, db, response>>

InitOvertime ==
  /\ today \in Clock
  /\ ALLOW_FUTURE_MONTHS = FALSE
  /\ \E t \in Targets :
       /\ monthly = {NewMonthly({}, t, 0)}
       /\ daily \in OvertimeSets(NewMonthly({}, t, 0))
  /\ inflight = [w \in Workers |-> Idle]
  /\ response = NoResponse

NextOvertime == \E u \in Users : CalculateOvertime(1, u)

SpecOvertime == InitOvertime /\ [][NextOvertime]_vars

\* A monthly entry with a single daily entry, on any day of the first week.
InitSingleEntry ==
  /\ today \in Clock
  /\ ALLOW_FUTURE_MONTHS = FALSE
  /\ \E t \in Targets, day \in 1..NumSingleEntryDays, v \in OvertimeValues :
       /\ monthly = {NewMonthly({}, t, 0)}
       /\ daily = {OvertimeRow(NewMonthly({}, t, 0), day, v)}
  /\ inflight = [w \in Workers |-> Idle]
  /\ response = NoResponse

SpecSingleEntry == InitSingleEntry /\ [][NextOvertime]_vars

\* ------------------------------------------------------- month_day_list
\* Years the day list is asked for: leap and common years, century years
\* that are leap (2000) and that are not (1900, 2100).
ListYears == {1900, 2000, 2023, 2024, 2100}

\* One call of month_day_list(year, month); the caller keeps the list.
MonthDayList(w, year, month) ==
  /\ inflight[w].op \in {"idle", "days"}
  /\ inflight' = [inflight EXCEPT ![w] =
       [op |-> "days", year |-> year, month |-> month,
        days |-> month_day_list(year, month)]]
  /\ UNCHANGED <<env, db, response>>

NextDays == \E year \in ListYears, month \in 1..12 : MonthDayList(1, year, month)

SpecDays == Init /\ [][NextDays]_vars

\* ------------------------------------------- requests for any employee_id
\* employee_id values of request URLs, one of them of no employee record.
AnyEmployeeIds == {"E1", "E9"}
AnyTargets == {[employee_id |-> e, year |-> ym[1], month |-> ym[2]] :
                 e \in AnyEmployeeIds, ym \in Months}

\* The owner starts the timesheet of E1; every user posts reviews, saves and
\* submits to the URL of E1 and to a URL that names no employee.
NextAnyEmployee ==
  \/ \E t \in Targets : PostStart("owner", t)
  \/ \E u \in Users, t \in AnyTargets, action \in ReviewActions :
       PostReview(u, t, action, NoComment)
  \/ \E u \in Users, t \in AnyTargets, strict \in BOOLEAN, f \in Forms :
       PostSave(u, t, strict, f.management, f.valid, f.edits)

SpecAnyEmployee == Init /\ [][NextAnyEmployee]_vars

\* Two views, serving any two users, each compute the overtime of the same
\* monthly entry.
NextTwoComputations == \E w \in {1, 2}, u \in Users : CalculateOvertime(w, u)

SpecTwoComputations == InitSingleEntry /\ [][NextTwoComputations]_vars

\* ================================================================ claims
\* Roles as the transition table names them, stated on the data alone.
Owner(u, m) == user_employee(u) # None /\ user_employee(u) = m.employee

OwnerOfTarget(u, t) ==
  user_employee(u) # None /\ user_employee(u) = employee(t.employee_id)

HR(u) == "HR" \in User[u].groups

SupervisorOfRecord(u, m) ==
  /\ "Supervisor" \in User[u].groups
  /\ \E e \in m.employee : e.supervisor_email = User[u].email

\* The stored row with this id, before and after a step.
Row(M, id) == CHOOSE m \in M : m.id = id

\* The step leaves the row m and its daily entries as they are.
RowUntouched(m) ==
  /\ m \in monthly'
  /\ daily_entries(daily', m) = daily_entries(daily, m)

\* ---------------------------------------------------------------- C1
\* C1: the status becomes 'submitted' only through a submit request of the
\* owner while the status is 'draft' or 'rejected', and that submit sets the
\* submitted timestamp; a submit by anyone else, or from 'submitted',
\* 'approved' or 'verified', leaves the status unchanged.
C1_SubmittedOnlyByOwnerSubmit ==
  [][/\ \A m \in monthly : \A n \in monthly' :
          (n.id = m.id /\ n.status = "submitted" /\ m.status # "submitted")
            => /\ m.status \in {"draft", "rejected"}
               /\ n.submitted_datetime = Some(today)
               /\ \E u \in Users, t \in Targets, edits \in Edits :
                    Owner(u, m) /\ PostSave(u, t, TRUE, TRUE, TRUE, edits)
     /\ \A u \in Users, t \in Targets, f \in Forms :
          PostSave(u, t, TRUE, f.management, f.valid, f.edits)
            => \A m \in monthly_lookup(monthly, t) :
                 (~Owner(u, m) \/ m.status \in {"submitted", "approved", "verified"})
                   => Row(monthly', m.id).status = m.status]_vars

\* ---------------------------------------------------------------- C2
\* C2: an approve request sets status 'approved', the approver identity and
\* the approval date if and only if the status is 'submitted' and the actor is
\* the supervisor-of-record; otherwise it changes nothing.
C2_ApproveIffSupervisorOfRecord ==
  [][\A u \in Users, t \in Targets, c \in Comments :
       PostReview(u, t, "approve", c)
         => \A m \in monthly_lookup(monthly, t) :
              IF m.status = "submitted" /\ SupervisorOfRecord(u, m)
                THEN LET n == Row(monthly', m.id)
                     IN /\ n.status = "approved"
                        /\ n.approved_by = Some(get_user_credentials(u))
                        /\ n.approved_date = Some(today)
                ELSE UNCHANGED db]_vars

\* The supervisor of record has just approved a submitted timesheet.
C2_Witness ==
  \E m \in monthly :
    /\ response = MsgApproved
    /\ m.status = "approved"
    /\ m.approved_by = Some(get_user_credentials("sup"))
    /\ m.approved_date = Some(today)
    /\ m.verified_by = None

\* ---------------------------------------------------------------- C3
\* C3: 'verified' is entered only by a verify request of an HR actor while the
\* status is 'approved'; a verify request from any other status, or by a
\* non-HR actor, leaves status and verifier fields unchanged.
C3_VerifiedOnlyByHrFromApproved ==
  [][/\ \A m \in monthly : \A n \in monthly' :
          (n.id = m.id /\ n.status = "verified" /\ m.status # "verified")
            => /\ m.status = "approved"
               /\ \E u \in Users, t \in Targets, c \in Comments :
                    HR(u) /\ PostReview(u, t, "verify", c)
     /\ \A n \in monthly' :
          (n.status = "verified") => \E m \in monthly : m.id = n.id
     /\ \A u \in Users, t \in Targets, c \in Comments :
          PostReview(u, t, "verify", c)
            => \A m \in monthly_lookup(monthly, t) :
                 (~HR(u) \/ m.status # "approved")
                   => LET n == Row(monthly', m.id)
                      IN /\ n.status = m.status
                         /\ n.verified_by = m.verified_by
                         /\ n.verified_date = m.verified_date]_vars

\* HR has just verified an approved timesheet.
C3_Witness ==
  \E m \in monthly :
    /\ response = MsgVerified
    /\ m.status = "verified"
    /\ m.verified_by = Some(get_user_credentials("hr"))
    /\ m.verified_date = Some(today)

\* ---------------------------------------------------------------- C4
\* C4: a retract request succeeds only for an HR actor on a 'verified'
\* timesheet; it sets the status to 'approved' and clears the verifier identity
\* and date.  Any other retract changes nothing.
C4_RetractOnlyHrFromVerified ==
  [][\A u \in Users, t \in Targets, c \in Comments :
       PostReview(u, t, "retract", c)
         => \A m \in monthly_lookup(monthly, t) :
              IF HR(u) /\ m.status = "verified"
                THEN LET n == Row(monthly', m.id)
                     IN /\ n.status = "approved"
                        /\ n.verified_by = None
                        /\ n.verified_date = None
                ELSE UNCHANGED db]_vars

\* HR has just retracted the verification of a verified timesheet.
C4_Witness ==
  \E m \in monthly :
    /\ response = MsgRetracted
    /\ m.status = "approved"
    /\ m.verified_by = None /\ m.verified_date = None
    /\ m.approved_by # None

\* ---------------------------------------------------------------- C5
\* C5: a reject request sets status 'rejected', the rejecter identity and date
\* only when the status is 'submitted' or 'approved' and the actor is HR or the
\* supervisor-of-record; a Supervisor who is not the recorded supervisor of
\* this employee cannot reject.
C5_RejectOnlyHrOrSupervisorOfRecord ==
  [][\A u \in Users, t \in Targets, c \in Comments :
       PostReview(u, t, "reject", c)
         => \A m \in monthly_lookup(monthly, t) :
              IF m.status \in {"submitted", "approved"}
                 /\ (HR(u) \/ SupervisorOfRecord(u, m))
                THEN LET n == Row(monthly', m.id)
                     IN /\ n.status = "rejected"
                        /\ n.rejected_by = Some(get_user_credentials(u))
                        /\ n.rejected_date = Some(today)
                ELSE UNCHANGED db]_vars

\* ---------------------------------------------------------------- C6
\* C6: a save-edits request persists daily-entry changes only when the actor is
\* the owner and the status is 'draft' or 'rejected'; in 'submitted',
\* 'approved' or 'verified' it is refused for every actor and leaves every
\* daily entry and the monthly record unchanged.
C6_SaveOnlyOwnerInDraftOrRejected ==
  [][\A u \in Users, t \in Targets, f \in Forms :
       PostSave(u, t, FALSE, f.management, f.valid, f.edits)
         => \A m \in monthly_lookup(monthly, t) :
              ~(Owner(u, m) /\ m.status \in {"draft", "rejected"})
                => UNCHANGED db]_vars

\* ---------------------------------------------------------------- C7
\* C7: once the status is 'approved' or 'verified', no request of the owner
\* changes the status, the review fields or the daily entries; the status
\* leaves 'approved' only by verify (HR) or reject (supervisor-of-record or
\* HR), and leaves 'verified' only by retract (HR).
OwnerRequest(u) ==
  \/ \E t \in Targets : PostStart(u, t)
  \/ \E t \in Targets, action \in ReviewActions, c \in Comments :
       PostReview(u, t, action, c)
  \/ \E t \in Targets, strict \in BOOLEAN, f \in Forms :
       PostSave(u, t, strict, f.management, f.valid, f.edits)

C7_ApprovedVerifiedImmutableToOwner ==
  [][\A m \in monthly :
       /\ \A o \in Users :
            (m.status \in {"approved", "verified"} /\ Owner(o, m) /\ OwnerRequest(o))
              => RowUntouched(m)
       /\ (m.status = "approved" /\ Row(monthly', m.id).status # "approved")
            => \E r \in Users, t \in Targets, c \in Comments :
                 \/ HR(r) /\ PostReview(r, t, "verify", c)
                 \/ (HR(r) \/ SupervisorOfRecord(r, m)) /\ PostReview(r, t, "reject", c)
       /\ (m.status = "verified" /\ Row(monthly', m.id).status # "verified")
            => \E r \in Users, t \in Targets, c \in Comments :
                 HR(r) /\ PostReview(r, t, "retract", c)]_vars

\* ---------------------------------------------------------------- C9
\* C9: a start request for an (employee, month) without a record succeeds only
\* when the actor is the owner; it creates the record with status 'draft' and
\* one daily entry of duration 0 for every calendar day of the month (31 for
\* 2024-03).  A start request by a non-owner creates nothing.
C9_StartOnlyByOwner ==
  [][\A u \in Users, t \in Targets :
       (PostStart(u, t) /\ monthly_lookup(monthly, t) = {})
         => IF OwnerOfTarget(u, t)
              THEN \A n \in monthly_lookup(monthly', t) :
                     /\ n.status = "draft"
                     /\ Cardinality(daily_entries(daily', n)) = 31
                     /\ \A d \in daily_entries(daily', n) : d.duration = 0
              ELSE UNCHANGED db]_vars

\* ---------------------------------------------------------------- C8
\* C8: of two requests that read the same status of one timesheet and ask for
\* conflicting transitions, at most one is applied: a request whose status read
\* is no longer the stored status when it saves is refused and writes nothing.
C8_StaleTransitionRefused ==
  [][\A w \in ReviewWorkers :
       (ReviewCommit(w) /\ Row(monthly, inflight[w].read.id).status # inflight[w].read.status)
         => UNCHANGED monthly]_vars

\* ---------------------------------------------------------------- C10
\* C10: in every reachable state, also after concurrent start requests for the
\* same employee and month, at most one monthly record exists per
\* (employee, month).
C10_AtMostOneMonthlyPerKey ==
  \A m1 \in monthly, m2 \in monthly :
    (m1.employee = m2.employee /\ m1.month = m2.month) => m1 = m2

\* Two start requests for the same key overlap: one has inserted its row and
\* not yet committed, the other is at its get_or_create.
C10_Witness ==
  \E v \in Workers, w \in Workers :
    /\ v # w
    /\ inflight[v].op = "start" /\ inflight[v].pc = "create" /\ inflight[v].created
    /\ inflight[w].op = "start" /\ inflight[w].pc = "get_or_create"
    /\ inflight[w].t = inflight[v].t

\* ---------------------------------------------------------------- C11
\* C11: under any interleaving of start requests and page reads, every
\* calendar date of the month of a materialized timesheet has exactly one
\* daily entry: never zero and never two.
C11_OneDailyEntryPerDate ==
  \A m \in monthly :
    \A i \in 1..LastDay(m.month[1], m.month[2]) :
      Cardinality({d \in daily_entries(daily, m) :
                     d.day = month_day_list(m.month[1], m.month[2])[i]}) = 1

\* A page read of a materialized timesheet has read the dates and not yet
\* created the missing rows, while a start request for the same month is
\* between its read of the dates and its creation of the rows.
C11_Witness ==
  \E g \in Workers, w \in Workers :
    /\ inflight[g].op = "get"
    /\ inflight[w].op = "start" /\ inflight[w].pc = "create"
    /\ inflight[w].t = inflight[g].t
    /\ monthly # {}

\* ---------------------------------------------------------------- C12
\* C12: ensure_daily_placeholders is idempotent when run sequentially: a call
\* made after another call creates no entry and leaves the set of daily
\* entries, durations and entry types included, as the earlier call left it.
C12_EnsureIdempotent ==
  [][\A w \in Workers :
       (EnsureCall(w) /\ \E v \in Workers : inflight[v].op = "ensured")
         => /\ daily' = daily
            /\ inflight'[w].created[Len(inflight'[w].created)] = 0]_vars

\* A caller has called twice on a month that held rows with hours entered:
\* the first call created rows, the second none, and the hours are still there.
C12_Witness ==
  \E w \in Workers :
    /\ inflight[w].op = "ensured"
    /\ Len(inflight[w].created) = 2
    /\ inflight[w].created[1] > 0 /\ inflight[w].created[2] = 0
    /\ \E d \in daily : d.duration = 10 /\ d.entry_type = "H"

\* ---------------------------------------------------------------- C13
\* C13: a GET of the calendar page never creates a monthly record; a record
\* for (employee, month) comes into being only by an accepted start request
\* for that employee and month.
C13_GetNeverCreatesMonthly ==
  [][(monthly' # monthly)
       => /\ \A u \in Users, t \in Targets, ym \in Yms : ~Get(u, t, ym)
          /\ \A n \in monthly' :
               (\A m \in monthly : m.id # n.id)
                 => \E u \in Users, t \in Targets :
                      /\ PostStart(u, t) /\ response' = MsgCreated
                      /\ n \in monthly_lookup(monthly', t)]_vars

\* The calendar page of a month without a record has been rendered, and there
\* is still no record.
C13_Witness == response = Page /\ monthly = {}

\* ---------------------------------------------------------------- C14
\* C14: while the allow-future-months flag is off, a start request and a
\* submit request for a month after the current month are refused and change
\* nothing; while the flag is on, the same start request creates the record.
C14_FutureMonthGuard ==
  [][\A t \in Targets :
       is_future_month(t.year, t.month)
         => \A u \in Users :
              /\ (~ALLOW_FUTURE_MONTHS /\ PostStart(u, t)) => UNCHANGED db
              /\ (~ALLOW_FUTURE_MONTHS
                    /\ \E f \in Forms : PostSave(u, t, TRUE, f.management, f.valid, f.edits))
                   => UNCHANGED db
              /\ (ALLOW_FUTURE_MONTHS /\ PostStart(u, t))
                   => /\ response' = MsgCreated
                      /\ monthly_lookup(monthly', t) # {}]_vars

\* ---------------------------------------------------------------- C15
\* C15: a save or submit request whose batch holds at least one invalid row
\* is rejected as a whole: no daily entry is modified, the valid rows of the
\* batch included, the monthly record is not modified and the status does not
\* become 'submitted'.
C15_InvalidBatchRejectedWhole ==
  [][(daily' # daily \/ monthly' # monthly)
       => \A u \in Users, t \in Targets, strict \in BOOLEAN, form_valid \in BOOLEAN,
             batch \in Batches :
            (\E day \in DOMAIN batch : ~batch[day].valid)
              => ~PostBatch(u, t, strict, form_valid, batch)]_vars

\* A batch has been refused for its errors on a timesheet that holds hours
\* saved by an earlier batch.
C15_Witness ==
  /\ response = MsgErrors
  /\ \E m \in monthly : \E d \in daily_entries(daily, m) : d.duration = 10

\* ---------------------------------------------------------------- C16
\* C16: every accepted transition (submit, approve, verify, retract, reject)
\* sets the comment to exactly the comment supplied with the action, the empty
\* string when none is supplied, and keeps no earlier comment.
Supplied(c) == IF c = NoComment THEN <<>> ELSE CHOOSE x \in c : TRUE

C16_CommentOverwritten ==
  [][\A t \in Targets :
       \A m \in monthly_lookup(monthly', t) :
         /\ \A u \in Users, action \in ReviewActions, c \in Comments :
              (response' \in {MsgApproved, MsgVerified, MsgRetracted, MsgRejected}
                 /\ PostReview(u, t, action, c))
                => m.comment = Supplied(c)
         /\ \A u \in Users, f \in Forms :
              (response' = MsgSubmitted
                 /\ PostSave(u, t, TRUE, f.management, f.valid, f.edits))
                => m.comment = <<>>]_vars

\* The same statement for comments without surrounding blanks: what is left
\* to fail is the submit, which carries no comment and writes none.
C16_SubmitKeepsComment ==
  [][\A t \in Targets :
       \A m \in monthly_lookup(monthly', t) :
         /\ \A u \in Users, action \in ReviewActions, c \in Comments :
              (response' \in {MsgApproved, MsgVerified, MsgRetracted, MsgRejected}
                 /\ PostReview(u, t, action, c))
                => m.comment = strip(Supplied(c))
         /\ \A u \in Users, f \in Forms :
              (response' = MsgSubmitted
                 /\ PostSave(u, t, TRUE, f.management, f.valid, f.edits))
                => m.comment = <<>>]_vars

\* ---------------------------------------------------------------- C17
SupervisorOfTarget(u, t) ==
  /\ "Supervisor" \in User[u].groups
  /\ \E e \in employee(t.employee_id) : e.supervisor_email = User[u].email

\* The context of the page worker w's client holds, if any.
PageOf(w) == IF inflight[w].op = "page" THEN {inflight[w]} ELSE {}

\* is_owner holds exactly for the user whose employee record is the timesheet's.
C17_IsOwner ==
  \A w \in Workers : \A p \in PageOf(w) :
    p.context.is_owner = OwnerOfTarget(p.u, p.t)

\* is_reviewer holds exactly for a non-owner who is HR or supervisor of record.
C17_IsReviewer ==
  \A w \in Workers : \A p \in PageOf(w) :
    p.context.is_reviewer =
      (~OwnerOfTarget(p.u, p.t) /\ (HR(p.u) \/ SupervisorOfTarget(p.u, p.t)))

\* C17: for every acting user and target employee the resolver returns isOwner
\* exactly when the user's own employee record is the timesheet's employee, and
\* isReviewer exactly when the user is not the owner and is HR or is a
\* Supervisor whose e-mail is the target employee's recorded supervisor e-mail.
C17_ResolverAgrees == C17_IsOwner /\ C17_IsReviewer

\* ---------------------------------------------------------------- C18
\* The role of the page's user, as the transition table names it.
NonOwner(p) == ~OwnerOfTarget(p.u, p.t)

C18_AllowEdit ==
  \A w \in Workers : \A p \in PageOf(w) :
    p.context.allow_edit =
      (OwnerOfTarget(p.u, p.t) /\ p.entry_status \cap {"draft", "rejected"} # {})

C18_AllowSupervisorReview ==
  \A w \in Workers : \A p \in PageOf(w) :
    p.context.allow_sv_review =
      (NonOwner(p) /\ SupervisorOfTarget(p.u, p.t)
         /\ p.entry_status = {"submitted"})

C18_AllowHrReview ==
  \A w \in Workers : \A p \in PageOf(w) :
    p.context.allow_hr_review =
      (NonOwner(p) /\ HR(p.u) /\ p.entry_status = {"approved"})

C18_AllowReject ==
  \A w \in Workers : \A p \in PageOf(w) :
    p.context.allow_reject =
      (NonOwner(p) /\ (SupervisorOfTarget(p.u, p.t) \/ HR(p.u))
         /\ p.entry_status \cap {"submitted", "approved"} # {})

C18_AllowRetract ==
  \A w \in Workers : \A p \in PageOf(w) :
    p.context.allow_retract =
      (NonOwner(p) /\ HR(p.u) /\ p.entry_status = {"verified"})

\* C18: for every role and status the flags of the page agree with the
\* transition table: edit for the owner on draft or rejected, supervisor review
\* for a non-owner supervisor of record on submitted, HR review for non-owner
\* HR on approved, reject for either on submitted or approved, retract for
\* non-owner HR on verified, and in no other case.
C18_FlagsAgreeWithTable ==
  /\ C18_AllowEdit
  /\ C18_AllowSupervisorReview
  /\ C18_AllowHrReview
  /\ C18_AllowReject
  /\ C18_AllowRetract

\* The edit flag on the pages of E1's timesheet once it exists.
C18_AllowEditOwnTimesheet ==
  \A w \in Workers : \A p \in PageOf(w) :
    (p.t.employee_id = "E1" /\ p.entry_status # {}) =>
      p.context.allow_edit =
        (OwnerOfTarget(p.u, p.t) /\ p.entry_status \cap {"draft", "rejected"} # {})

\* Pages on which the review flags are set: the flags found to agree are
\* exercised in both directions.
C18_ReviewFlagsSeen ==
  /\ inflight[1].op = "page"
  /\ inflight[1].context.allow_retract
  /\ ~inflight[1].context.allow_reject

\* ---------------------------------------------------------------- C19
\* A finished call of calculate_monthly_overtime, if worker w holds one.
OvertimeOf(w) == IF inflight[w].op = "overtime" THEN {inflight[w]} ELSE {}

\* int(text) of a decimal text with an optional sign.
RECURSIVE number(_)
number(text) ==
  IF text = <<>> THEN 0
  ELSE IF Head(text) = "-" THEN 0 - number(Tail(text))
  ELSE 10 * number(SubSeq(text, 1, Len(text) - 1))
       + (CHOOSE k \in 0..9 : DigitChars[k + 1] = text[Len(text)])

Max(a, b) == IF a >= b THEN a ELSE b

\* The entries each rule applies to, each with the baseline of the rule.
Applicable(dailyentries, nightwatch) ==
  LET base == IF nightwatch THEN base_time_obj_nightwatch ELSE base_time_obj
  IN {<<"weekday", e, base>> : e \in weekday_entries(dailyentries)}
     \cup {<<"weekend", e, base>> : e \in weekend_entries(dailyentries, nightwatch)}
     \cup {<<"holiday", e, holiday_entry_duration>> : e \in holiday_entries(dailyentries)}

RECURSIVE SumOfExcess(_)
SumOfExcess(applied) ==
  IF applied = {} THEN 0
  ELSE LET a == CHOOSE x \in applied : TRUE
       IN Max(a[2].duration - a[3], 0) + SumOfExcess(applied \ {a})

\* C19: whenever an overtime is computed from a set of daily entries it is the
\* sum over the applicable entries of max(duration - baseline, 0): it is never
\* negative, an entry at or below its baseline adds nothing and takes nothing
\* away, and a lone regular weekday entry of 10 hours on baseline 8 gives 2.
C19_OvertimeIsSumOfExcess ==
  \A w \in Workers : \A c \in OvertimeOf(w) : \A text \in c.result.monthly_overtime :
    LET nightwatch == is_nightwatch(c.u)
        applied == Applicable(c.dailyentries, nightwatch)
    IN /\ number(text) = SumOfExcess(applied)
       /\ number(text) >= 0
       /\ number(text) =
            SumOfExcess({a \in applied : a[2].duration > a[3]})
       /\ (/\ ~nightwatch
           /\ Cardinality(c.dailyentries) = 1
           /\ \A e \in c.dailyentries :
                e.entry_type = "RH" /\ e.duration = 10 /\ week_day(e.day) = 6)
            => text = <<"2">>

\* An overtime computed from entries above and entries below their baseline.
C19_Witness ==
  \E c \in OvertimeOf(1) :
    /\ c.result.monthly_overtime = Some(<<"2">>)
    /\ ~is_nightwatch(c.u)
    /\ \E e \in weekday_entries(c.dailyentries) : e.duration = 10
    /\ \E e \in holiday_entries(c.dailyentries) : e.duration = 6

\* ---------------------------------------------------------------- C20
\* C20: for a user who is no night watch and entries with at least one
\* qualifying weekend-tagged entry, the computation ends in an error: no
\* monthly_overtime is set, and the unset weekend baseline is not taken as zero.
C20_UnsetWeekendBaselineIsFatal ==
  \A w \in Workers : \A c \in OvertimeOf(w) :
    (/\ ~is_nightwatch(c.u)
     /\ \E e \in c.dailyentries :
          e.entry_type = "WE" /\ week_day(e.day) \in {6, 7})
      => c.result.raised /\ c.result.monthly_overtime = None

\* The call raised on a weekend entry longer than any baseline.
C20_Witness ==
  \E c \in OvertimeOf(1) :
    /\ ~is_nightwatch(c.u)
    /\ c.result.raised
    /\ \E e \in c.dailyentries :
         e.entry_type = "WE" /\ week_day(e.day) = 7 /\ e.duration = 14

\* ---------------------------------------------------------------- C21
\* Days of the week as the week_day lookup numbers them.
TuesdayToSaturday == {3, 4, 5, 6, 7}
MondayToFriday == {2, 3, 4, 5, 6}

\* C21: the weekday rule applies to exactly the 'RH' entries dated Tuesday to
\* Saturday: for a user who is no night watch a lone 'RH' entry gives
\* max(duration - baseline, 0) on those days and nothing on a Sunday or Monday.
C21_WeekdayRuleTuesdayToSaturday ==
  \A w \in Workers : \A c \in OvertimeOf(w) : \A text \in c.result.monthly_overtime :
    \A e \in c.dailyentries :
      (~is_nightwatch(c.u) /\ c.dailyentries = {e} /\ e.entry_type = "RH")
        => number(text) =
             (IF week_day(e.day) \in TuesdayToSaturday
                THEN Max(e.duration - base_time_obj, 0) ELSE 0)

\* The rule as the filter applies it: Monday to Friday.
C21_WeekdayRuleMondayToFriday ==
  \A w \in Workers : \A c \in OvertimeOf(w) : \A text \in c.result.monthly_overtime :
    \A e \in c.dailyentries :
      (~is_nightwatch(c.u) /\ c.dailyentries = {e} /\ e.entry_type = "RH")
        => number(text) =
             (IF week_day(e.day) \in MondayToFriday
                THEN Max(e.duration - base_time_obj, 0) ELSE 0)

\* ---------------------------------------------------------------- C22
\* The number of the day in the proleptic Gregorian calendar, counted from the
\* civil date without a table of month lengths.
Ordinal(day) ==
  LET y == IF day[2] <= 2 THEN day[1] - 1 ELSE day[1]
      era == y \div 400
      yoe == y - era * 400
      mp == IF day[2] > 2 THEN day[2] - 3 ELSE day[2] + 9
      doy == ((153 * mp + 2) \div 5) + day[3] - 1
      doe == yoe * 365 + (yoe \div 4) - (yoe \div 100) + doy
  IN era * 146097 + doe

FirstOfNextMonth(year, month) ==
  IF month = 12 THEN <<year + 1, 1, 1>> ELSE <<year, month + 1, 1>>

DaysOfMonth(year, month) ==
  Ordinal(FirstOfNextMonth(year, month)) - Ordinal(<<year, month, 1>>)

DayListOf(w) == IF inflight[w].op = "days" THEN {inflight[w]} ELSE {}

\* C22: for every year and month, month_day_list returns the dates of the
\* month in ascending order without gap or repeat, from day 1, as many as the
\* month has days (28 to 31, 29 for February of a leap year).
C22_MonthDayListIsTheMonth ==
  \A w \in Workers : \A c \in DayListOf(w) :
    LET days == c.days
    IN /\ Len(days) = DaysOfMonth(c.year, c.month)
       /\ Len(days) \in 28..31
       /\ (c.month = 2 /\ IsLeap(c.year)) => Len(days) = 29
       /\ days[1] = <<c.year, c.month, 1>>
       /\ \A i \in 1..Len(days) : days[i][1] = c.year /\ days[i][2] = c.month
       /\ \A i \in 1..(Len(days) - 1) : Ordinal(days[i + 1]) = Ordinal(days[i]) + 1
       /\ \A i, j \in 1..Len(days) : days[i] = days[j] => i = j
       /\ Ordinal(days[Len(days)]) + 1 = Ordinal(FirstOfNextMonth(c.year, c.month))

\* The list of February of a century year that is no leap year.
C22_Witness ==
  \E c \in DayListOf(1) :
    c.year = 1900 /\ c.month = 2 /\ Len(c.days) = 28 /\ c.days[28] = <<1900, 2, 28>>

\* ---------------------------------------------------------------- C23
\* The hours a stored monthly_overtime stands for; an unset field is read as
\* no overtime.
StoredOvertime(m) ==
  IF m.monthly_overtime = None THEN 0
  ELSE number(CHOOSE text \in m.monthly_overtime : TRUE)

\* C23: after every accepted save or submit the stored monthly_overtime is the
\* overtime computed from the daily entries as that request left them.
C23_OvertimeRecomputedOnSave ==
  [][response' \in {MsgSaved, MsgSubmitted} =>
       \A t \in Targets, strict \in BOOLEAN, form_valid \in BOOLEAN, batch \in Batches :
         PostBatch("owner", t, strict, form_valid, batch) =>
           \A m \in monthly_lookup(monthly', t) :
             StoredOvertime(m) =
               number(str(extra_hours(daily_entries(daily', m),
                                      is_nightwatch("owner"))))]_vars

\* ---------------------------------------------------------------- C24
\* C24: every POST, for any action, actor and status, also to a URL whose
\* employee_id names no employee record, ends in a redirect or a page with a
\* message and never in an unhandled exception.
C24_PostAlwaysHandled == response # ServerError

\* ---------------------------------------------------------------- C25
\* The baselines of the category filters a lone entry e matches, one element
\* per matching filter.
MatchingBaselines(e, nightwatch) ==
  LET base == IF nightwatch THEN base_time_obj_nightwatch ELSE base_time_obj
  IN (IF e \in weekday_entries({e}) THEN <<base>> ELSE <<>>)
     \o (IF e \in weekend_entries({e}, nightwatch) THEN <<base>> ELSE <<>>)
     \o (IF e \in holiday_entries({e}) THEN <<holiday_entry_duration>> ELSE <<>>)

RECURSIVE ExcessOver(_, _)
ExcessOver(duration, baselines) ==
  IF baselines = <<>> THEN 0
  ELSE Max(duration - Head(baselines), 0) + ExcessOver(duration, Tail(baselines))

\* C25: the computation does not deduplicate across categories: an entry
\* counts once for each filter it matches; for a night watch a holiday entry
\* of duration d gives max(d - 12, 0) + max(d - 8, 0).
C25_CountedOncePerMatchingFilter ==
  \A w \in Workers : \A c \in OvertimeOf(w) : \A text \in c.result.monthly_overtime :
    \A e \in c.dailyentries :
      c.dailyentries = {e} =>
        /\ number(text) = ExcessOver(e.duration, MatchingBaselines(e, is_nightwatch(c.u)))
        /\ (is_nightwatch(c.u) /\ e.entry_type = "H")
             => number(text) = Max(e.duration - 12, 0) + Max(e.duration - 8, 0)

\* A night watch's holiday entry of 14 hours, counted 2 + 6.
C25_Witness ==
  \E c \in OvertimeOf(1) : \E e \in c.dailyentries :
    /\ is_nightwatch(c.u)
    /\ c.dailyentries = {e}
    /\ e.entry_type = "H" /\ e.duration = 14
    /\ c.result.monthly_overtime = Some(<<"8">>)

\* ---------------------------------------------------------------- C26
\* The night-shift flag of the employee a monthly entry belongs to.
EmployeeIsNightShift(m) ==
  \E e \in m.employee : contains(lower(e.job_title), <<"n", "i", "g", "h", "t">>)

\* C26: the baseline used for a timesheet depends on the job title of the
\* timesheet's employee only: computations on the same entries triggered by
\* different acting users give the same monthly_overtime, the one of the
\* employee's own baseline.
C26_BaselineOfTimesheetEmployee ==
  /\ \A w1, w2 \in Workers : \A c1 \in OvertimeOf(w1), c2 \in OvertimeOf(w2) :
       c1.dailyentries = c2.dailyentries => c1.result = c2.result
  /\ \A w \in Workers : \A c \in OvertimeOf(w) : \A m \in monthly :
       c.result = calculate_monthly_overtime(c.dailyentries, EmployeeIsNightShift(m))

\* ---------------------------------------------------------------- C27
\* The messages of a refused review request (calendar_view.py 192-258).
ReviewRefusals ==
  {MsgFinal, MsgRetractDenied, MsgRetractStatus, MsgApproveDenied,
   MsgApproveStatus, MsgVerifyDenied, MsgVerifyStatus, MsgRejectDenied,
   MsgRejectStatus, MsgUnknownAction}

\* C27: a refused review request (wrong role, wrong status, unknown action,
\* or a review by a non-HR user of a verified timesheet) leaves the stored
\* timesheet as it was: status, review identities and dates, comment, and
\* every daily entry.
C27_RefusedReviewChangesNothing ==
  [][response' \in ReviewRefusals => (monthly' = monthly /\ daily' = daily)]_vars

\* A review with a comment was refused on a verified timesheet.
C27_Witness ==
  /\ response = MsgFinal
  /\ \E m \in monthly : m.status = "verified" /\ m.verified_by # None

\* ---------------------------------------------------------------- C28
\* C28: in every state reached by start, save, submit, approve, verify, reject
\* and retract requests the verifier and the verification date are set only
\* while the status is 'verified': on any other status both are empty.
C28_VerifierOnlyWhileVerified ==
  \A m \in monthly :
    m.status # "verified" => (m.verified_by = None /\ m.verified_date = None)

\* The same for the review actions and the start alone: the verifier fields
\* are written by verify and cleared by retract.
C28_VerifierAfterReviewOnly ==
  [][\A m \in monthly' :
       (response' \in {MsgCreated, MsgApproved, MsgVerified, MsgRetracted, MsgRejected}
          /\ \A x \in monthly :
               x.status # "verified" => (x.verified_by = None /\ x.verified_date = None))
         => (m.status # "verified" => (m.verified_by = None /\ m.verified_date = None))]_vars

\* ---------------------------------------------------------------- C29
\* The flag of the page that offers a review action.
FlagOf(context, action) ==
  CASE action = "approve" -> context.allow_sv_review
    [] action = "verify" -> context.allow_hr_review
    [] action = "reject" -> context.allow_reject
    [] action = "retract" -> context.allow_retract
    [] OTHER -> FALSE

\* An accepted review was offered to its user on the status it found.
AcceptedReviewWasOffered ==
  \A u \in Users, t \in Targets, action \in ReviewActions, c \in Comments :
    (response' \in {MsgApproved, MsgVerified, MsgRejected, MsgRetracted}
       /\ PostReview(u, t, action, c))
      => FlagOf(_build_extra_context(monthly, u, t), action)

\* An accepted save or submit was offered to its user on the status it found.
AcceptedSaveWasOffered ==
  \A u \in Users, t \in Targets, strict \in BOOLEAN, f \in Forms :
    (response' \in {MsgSaved, MsgSubmitted}
       /\ PostSave(u, t, strict, f.management, f.valid, f.edits))
      => _build_extra_context(monthly, u, t).allow_edit

C29_ReviewOffered == [][AcceptedReviewWasOffered]_vars

C29_SaveOffered == [][AcceptedSaveWasOffered]_vars

\* C29: the handler accepts no action the flags do not offer: whenever an
\* approve, verify, reject, retract, save or submit is applied, the flag of
\* that action, computed for the same user on the status found, is true.
C29_AcceptedOnlyIfOffered ==
  [][AcceptedReviewWasOffered /\ AcceptedSaveWasOffered]_vars

====
